---------------------------- MODULE Spec2Model ----------------------------
(***************************************************************************)
(* A model of metroline's traffic classification (CountTraffic, main.go),  *)
(* controller filter (ActiveControllers, main.go) and great-circle         *)
(* distance (NMDistance2LL, main.go).                                      *)
(*                                                                         *)
(* Coordinates.  A location is the pair <<longitude, latitude>> of the Go  *)
(* [2]float32.  An angle is an integer number of the angle that spans one  *)
(* nautical mile of arc (1/60.04 degree with R = 6371000 m and the factor  *)
(* 0.000539957).  The points of CountTraffic lie on one meridian           *)
(* (longitude 0), where the haversine distance of two points is the        *)
(* absolute difference of their latitudes.  Off one meridian the distance  *)
(* is modelled for points whose coordinates are whole multiples of 60      *)
(* degrees, where the haversine term x is an exact number of sixteenths.   *)
(* NaN stands for a float that is not a number: every distance computed    *)
(* from it is NaN and every ordered comparison with NaN is false.          *)
(*                                                                         *)
(* Strings that are only compared for equality (airport codes) are TLA+    *)
(* strings; strings that are ordered (call signs) are sequences of bytes.  *)
(***************************************************************************)
EXTENDS Integers, Sequences, FiniteSets, TLC

VARIABLES
    airports,      \* CountTraffic's registry argument: sequence of MajorAirport
    dep,           \* map[string]int of departures
    arr,           \* map[string]int of arrivals
    count,         \* total count
    pc,            \* position in CountTraffic: "loop", "iter", "done", "panic"
    pilot,         \* the loop variable of the running iteration, or NoPilot
    depInc,        \* codes whose departure count the running iteration raised
    arrInc,        \* codes whose arrival count the running iteration raised
    controllers,   \* state.Controllers, the input of ActiveControllers
    positions,     \* the watched positions, the input of ActiveControllers
    online,        \* the slice ActiveControllers returns
    acpc,          \* position in ActiveControllers: "call", "returned"
    pointA,        \* the argument a of NMDistance2LL
    pointB,        \* the argument b of NMDistance2LL
    dist,          \* the distances returned for (a, b), (b, a) and (a, a)
    dpc            \* position in the distance calls: "call", "returned"

vars == <<airports, dep, arr, count, pc, pilot, depInc, arrInc,
          controllers, positions, online, acpc,
          pointA, pointB, dist, dpc>>

trafficVars == <<airports, dep, arr, count, pc, pilot, depInc, arrInc>>
controllerVars == <<controllers, positions, online, acpc>>
distanceVars == <<pointA, pointB, dist, dpc>>

-----------------------------------------------------------------------------
\* Bounds of the model.

\* state.Pilots has any length; a further aircraft is taken from it only
\* while the total count is below MaxCount.
MaxCount == 2
\* Airports in the registry, majors and satellites together.
MaxAirports == 3
\* Controller sessions in state.Controllers.
MaxControllers == 3
\* Watched positions.
MaxPositions == 2
\* Longitudes of the points off the meridian, in steps of 60 degrees either
\* side of longitude 0; their latitudes reach one step less.
MaxSextants == 3

-----------------------------------------------------------------------------
\* Thresholds of CountTraffic, in nautical miles and knots.

CutoffNM == 500
DepartureNM == 30
GroundNM == 3
ArrivalNM == 300
TaxiKnots == 20

-----------------------------------------------------------------------------
\* Floats.

\* A float32 is a record: nan tells a NaN, v is the value of a number.
Float(x) == [nan |-> FALSE, v |-> x]
NaN == [nan |-> TRUE, v |-> 0]

Abs(x) == IF x < 0 THEN -x ELSE x

\* x < k and x > k of a float32 and a constant: false when x is NaN.
FLess(x, k) == ~x.nan /\ x.v < k
FGreater(x, k) == ~x.nan /\ x.v > k

\* 60 degrees in the unit of the model: R * (pi/3) * 0.000539957 = 3602.43.
Sextant == 3602

\* 4 * sqr(math.Sin(d/2)) for an angle d of k sextants: d/2 is k times 30
\* degrees, and the square of its sine is 0, 1/4, 3/4, 1, 3/4, 1/4 in turn.
SinSqr(k) == <<0, 1, 3, 4, 3, 1>>[(k % 6) + 1]

\* 2 * math.Cos(lat) for a latitude of j sextants: 1, 1/2, -1/2, -1, -1/2,
\* 1/2 in turn.
Cos(j) == <<2, 1, -1, -2, -1, 1>>[(j % 6) + 1]

\* R * 2*atan2(sqrt(x), sqrt(1-x)) * 0.000539957 for x = n/16, rounded to
\* the unit of the model (3602 for x = 1/4, where c is 60 degrees).
\* Outside 0..1 a square root is NaN, and so is the result.
Arc(n) ==
    IF n < 0 \/ n > 16 THEN NaN
    ELSE Float(<<0, 1738, 2486, 3081, 3602, 4081, 4534, 4972, 5403, 5834,
                 6272, 6725, 7204, 7725, 8320, 9068, 10806>>[n + 1])

\* The distance whose x takes the cosine of lat1 twice.
NMDistance2LLOneLatitude(a, b) ==
    IF a[1].nan \/ a[2].nan \/ b[1].nan \/ b[2].nan
    THEN NaN
    ELSE LET dlat == b[2].v - a[2].v
             dlon == b[1].v - a[1].v
             lat1 == a[2].v \div Sextant
         IN  IF dlon = 0 THEN Float(Abs(dlat))
             ELSE Arc(4 * SinSqr(dlat \div Sextant)
                      + Cos(lat1) * Cos(lat1) * SinSqr(dlon \div Sextant))

\* Haversine distance in nautical miles. With dlon = 0 the term
\* cos(lat1)*cos(lat2)*sin^2(dlon/2) vanishes, x = sin^2(dlat/2),
\* c = 2*atan2(sqrt(x), sqrt(1-x)) = |dlat|, and R*c*0.000539957 is the
\* latitude difference in the unit of the model. With dlon # 0 the
\* coordinates are whole sextants and 16*x is
\* 4*SinSqr(dlat) + Cos(lat1)*Cos(lat2)*SinSqr(dlon).
NMDistance2LL(a, b) ==
    IF a[1].nan \/ a[2].nan \/ b[1].nan \/ b[2].nan
    THEN NaN
    ELSE LET dlat == b[2].v - a[2].v
             dlon == b[1].v - a[1].v
             lat1 == a[2].v \div Sextant
             lat2 == b[2].v \div Sextant
         IN  IF dlon = 0 THEN Float(Abs(dlat))
             ELSE Arc(4 * SinSqr(dlat \div Sextant)
                      + Cos(lat1) * Cos(lat2) * SinSqr(dlon \div Sextant))

DistanceTo(a, p) == NMDistance2LL(a.Location, p)

-----------------------------------------------------------------------------
\* Inputs.

\* The nil *Airport, and the loop variable outside an iteration.
Nil == [nil |-> TRUE]
NoPilot == [none |-> TRUE]
EmptyMap == [k \in {} |-> 0]

CodePool == <<"KAAA", "KBBB", "KCCC">>

\* The code of slot i of the registry, counted over majors and satellites
\* in order: the codes of the pool in turn.
SlotCode(i) == CodePool[((i - 1) % Len(CodePool)) + 1]

\* The codes the airport in slot i may carry: the one of its slot, and for
\* the second slot also the one of the slot after it, so that registries
\* that list a code twice are covered.
NameChoices(i) ==
    {SlotCode(i)} \cup (IF i = 2 THEN {SlotCode(i + 1)} ELSE {})

\* The first airport is the origin; the others are 3 nm or 501 nm from it.
LocChoices(i) ==
    IF i = 1 THEN {<<Float(0), Float(0)>>}
    ELSE {<<Float(0), Float(3)>>, <<Float(0), Float(501)>>}

AirportsAt(i) == [Name : NameChoices(i), Location : LocChoices(i)]

AsMajor(a) == [Name |-> a.Name, Location |-> a.Location, Satellites |-> <<>>]

AddSatellite(r, a) ==
    [r EXCEPT ![Len(r)].Satellites = Append(@, a)]

\* Registries of exactly k airports: the k-th airport is a new major, or a
\* further satellite of the last major.
RECURSIVE RegistriesOf(_)
RegistriesOf(k) ==
    IF k = 0 THEN {<<>>}
    ELSE LET prev == RegistriesOf(k - 1)
         IN  {Append(r, AsMajor(a)) : r \in prev, a \in AirportsAt(k)}
             \cup {AddSatellite(r, a) : r \in {q \in prev : Len(q) > 0},
                                        a \in AirportsAt(k)}

Registries == UNION {RegistriesOf(k) : k \in 0..MaxAirports}

PilotCodes == {""} \cup {CodePool[i] : i \in 1..Len(CodePool)}
PilotLatitudes ==
    {Float(x) : x \in {0, 2, 3, 30, 300, 500, 501}} \cup {NaN}
PilotSpeeds == {0, 20, 21}

Pilots == [Longitude : {Float(0)}, Latitude : PilotLatitudes,
           Groundspeed : PilotSpeeds,
           Departure : PilotCodes, Arrival : PilotCodes]

-----------------------------------------------------------------------------
\* CountTraffic.

\* The closure major(ap): the Airport of the first major, in registry order,
\* whose own code or one of whose satellites' codes is ap; Nil when none.
RECURSIVE majorFrom(_, _, _)
majorFrom(reg, ap, i) ==
    IF i > Len(reg) THEN Nil
    ELSE IF reg[i].Name = ap
              \/ \E j \in 1..Len(reg[i].Satellites) : reg[i].Satellites[j].Name = ap
         THEN [Name |-> reg[i].Name, Location |-> reg[i].Location]
         ELSE majorFrom(reg, ap, i + 1)

\* The lookup that gives up after the first major.
majorOfFirstOnly(reg, ap) ==
    IF Len(reg) >= 1
       /\ (reg[1].Name = ap
           \/ \E j \in 1..Len(reg[1].Satellites) : reg[1].Satellites[j].Name = ap)
    THEN [Name |-> reg[1].Name, Location |-> reg[1].Location]
    ELSE Nil

major(reg, ap) == majorFrom(reg, ap, 1)

\* dep[k] = dep[k] + 1 on a Go map: a missing key reads as 0.
Increment(m, k) ==
    IF k \in DOMAIN m THEN [m EXCEPT ![k] = @ + 1] ELSE m @@ (k :> 1)

\* The 500 nm test taken against the last major instead of the first.
BeyondCutoffOfLast(reg, loc) ==
    FGreater(DistanceTo(reg[Len(reg)], loc), CutoffNM)

\* if airports[0].DistanceTo(pilotLoc) > 500 { continue }
BeyondCutoff(reg, loc) == FGreater(DistanceTo(reg[1], loc), CutoffNM)

\* The departure test of the flight-plan path.
DepartureByPlan(reg, p, loc) ==
    LET m == major(reg, p.Departure)
    IN  m # Nil /\ FLess(DistanceTo(m, loc), DepartureNM)

\* The guard without the test of the filed departure code.
FallbackGuardAnyCode(p) == p.Groundspeed < TaxiKnots

\* The guard without the groundspeed test.
FallbackGuardAnySpeed(p) == p.Departure = ""

\* The guard of the else-if branch.
FallbackGuard(p) == p.Groundspeed < TaxiKnots /\ p.Departure = ""

\* The inner loop over the satellites of major i, from satellite j on: TRUE
\* when one of them is within 3 nm (the code then leaves both loops).
RECURSIVE SatelliteScan(_, _, _, _)
SatelliteScan(reg, loc, i, j) ==
    IF j > Len(reg[i].Satellites) THEN FALSE
    ELSE IF FLess(DistanceTo(reg[i].Satellites[j], loc), GroundNM) THEN TRUE
         ELSE SatelliteScan(reg, loc, i, j + 1)

\* The scan that looks at the majors' own locations only.
RECURSIVE GroundScanOwnOnly(_, _, _)
GroundScanOwnOnly(reg, loc, i) ==
    IF i > Len(reg) THEN <<>>
    ELSE IF FLess(DistanceTo(reg[i], loc), GroundNM) THEN <<reg[i].Name>>
         ELSE GroundScanOwnOnly(reg, loc, i + 1)

\* The scan whose satellite match leaves the inner loop only (break instead
\* of break loop) and goes on with the next major.
RECURSIVE GroundScanInnerBreak(_, _, _)
GroundScanInnerBreak(reg, loc, i) ==
    IF i > Len(reg) THEN <<>>
    ELSE IF FLess(DistanceTo(reg[i], loc), GroundNM) THEN <<reg[i].Name>>
         ELSE IF SatelliteScan(reg, loc, i, 1)
              THEN <<reg[i].Name>> \o GroundScanInnerBreak(reg, loc, i + 1)
              ELSE GroundScanInnerBreak(reg, loc, i + 1)

\* The scan in two passes: the own locations of all majors first, their
\* satellites after.
GroundScanOwnFirst(reg, loc, i) ==
    IF GroundScanOwnOnly(reg, loc, i) # <<>>
    THEN GroundScanOwnOnly(reg, loc, i)
    ELSE LET hits == {h \in i..Len(reg) : SatelliteScan(reg, loc, h, 1)}
         IN  IF hits = {} THEN <<>>
             ELSE <<reg[CHOOSE h \in hits : \A g \in hits : h <= g].Name>>

\* The labelled loop over the majors, from major i on: the codes whose
\* departure count it raises, in order.
RECURSIVE GroundScan(_, _, _)
GroundScan(reg, loc, i) ==
    IF i > Len(reg) THEN <<>>
    ELSE IF FLess(DistanceTo(reg[i], loc), GroundNM) THEN <<reg[i].Name>>
         ELSE IF SatelliteScan(reg, loc, i, 1) THEN <<reg[i].Name>>
              ELSE GroundScan(reg, loc, i + 1)

\* The flight-plan path counting under the filed code instead of the code
\* of the major it resolves to.
DeparturesUnderFiledCode(reg, p, loc) ==
    IF DepartureByPlan(reg, p, loc) THEN <<p.Departure>>
    ELSE IF FallbackGuard(p) THEN GroundScan(reg, loc, 1)
         ELSE <<>>

\* The codes whose departure count one iteration raises.
Departures(reg, p, loc) ==
    IF DepartureByPlan(reg, p, loc) THEN <<major(reg, p.Departure).Name>>
    ELSE IF FallbackGuard(p) THEN GroundScan(reg, loc, 1)
         ELSE <<>>

\* The arrival test that lets a groundspeed of exactly 20 through.
ArrivalsFromTaxiSpeed(reg, p, loc) ==
    LET m == major(reg, p.Arrival)
    IN  IF m # Nil /\ FLess(DistanceTo(m, loc), ArrivalNM)
           /\ p.Groundspeed >= TaxiKnots
        THEN <<m.Name>>
        ELSE <<>>

\* The codes whose arrival count one iteration raises.
Arrivals(reg, p, loc) ==
    LET m == major(reg, p.Arrival)
    IN  IF m # Nil /\ FLess(DistanceTo(m, loc), ArrivalNM)
           /\ p.Groundspeed > TaxiKnots
        THEN <<m.Name>>
        ELSE <<>>

RECURSIVE IncrementAll(_, _)
IncrementAll(m, ks) ==
    IF ks = <<>> THEN m ELSE IncrementAll(Increment(m, Head(ks)), Tail(ks))

pilotLoc(p) == <<p.Longitude, p.Latitude>>

\* The total raised once per counted aircraft instead of once per increment.
NewCountPerAircraft(c, d, a) == c + (IF Len(d) + Len(a) > 0 THEN 1 ELSE 0)

\* count++ at every increment of a departure or an arrival count.
NewCount(c, d, a) == c + Len(d) + Len(a)

\* An iteration on an empty registry: airports[0] is out of range.
Panic ==
    /\ pc = "loop" /\ count < MaxCount
    /\ Len(airports) = 0
    /\ \E p \in Pilots : pilot' = p
    /\ pc' = "panic"
    /\ UNCHANGED <<airports, dep, arr, count, depInc, arrInc, controllerVars, distanceVars>>

\* An iteration that ends at the continue of the 500 nm test.
Skip ==
    /\ pc = "loop" /\ count < MaxCount
    /\ Len(airports) > 0
    /\ \E p \in Pilots :
          /\ BeyondCutoff(airports, pilotLoc(p))
          /\ pilot' = p
    /\ pc' = "iter"
    /\ depInc' = <<>> /\ arrInc' = <<>>
    /\ UNCHANGED <<airports, dep, arr, count, controllerVars, distanceVars>>

\* An iteration that passes the 500 nm test.
Classify ==
    /\ pc = "loop" /\ count < MaxCount
    /\ Len(airports) > 0
    /\ \E p \in Pilots :
          LET loc == pilotLoc(p)
              d == Departures(airports, p, loc)
              a == Arrivals(airports, p, loc)
          IN  /\ ~BeyondCutoff(airports, loc)
              /\ pilot' = p
              /\ depInc' = d /\ arrInc' = a
              /\ dep' = IncrementAll(dep, d)
              /\ arr' = IncrementAll(arr, a)
              /\ count' = NewCount(count, d, a)
    /\ pc' = "iter"
    /\ UNCHANGED <<airports, controllerVars, distanceVars>>

\* The range loop moves on: the loop variable of the iteration is gone.
NextPilot ==
    /\ pc = "iter"
    /\ pc' = "loop"
    /\ pilot' = NoPilot
    /\ depInc' = <<>> /\ arrInc' = <<>>
    /\ UNCHANGED <<airports, dep, arr, count, controllerVars, distanceVars>>

\* state.Pilots is exhausted: return dep, arr, count.
Return ==
    /\ pc = "loop"
    /\ pc' = "done"
    /\ UNCHANGED <<airports, dep, arr, count, pilot, depInc, arrInc,
                   controllerVars, distanceVars>>

TrafficInit ==
    /\ airports \in Registries
    /\ dep = EmptyMap /\ arr = EmptyMap /\ count = 0
    /\ pc = "loop"
    /\ pilot = NoPilot /\ depInc = <<>> /\ arrInc = <<>>

ControllersIdle ==
    /\ controllers = <<>> /\ positions = <<>> /\ online = <<>>
    /\ acpc = "returned"

\* No distance call is pending.
DistanceIdle ==
    /\ pointA = <<Float(0), Float(0)>> /\ pointB = <<Float(0), Float(0)>>
    /\ dist = [ab |-> Float(0), ba |-> Float(0), aa |-> Float(0)]
    /\ dpc = "returned"

-----------------------------------------------------------------------------
\* ActiveControllers.

\* Call signs as byte strings: "J", "JF" and "j".
Callsigns == {<<74>>, <<74, 70>>, <<106>>}
CIDs == {1, 2}

Controllers == [Callsign : Callsigns, CID : CIDs]
Positions == [Name : Callsigns]

SeqsUpTo(S, k) == UNION {[1..m -> S] : m \in 0..k}

\* strings.Compare: -1, 0 or +1 by byte-wise lexicographic order.
RECURSIVE Compare(_, _)
Compare(a, b) ==
    IF a = <<>> /\ b = <<>> THEN 0
    ELSE IF a = <<>> THEN -1
    ELSE IF b = <<>> THEN 1
    ELSE IF Head(a) < Head(b) THEN -1
    ELSE IF Head(a) > Head(b) THEN 1
    ELSE Compare(Tail(a), Tail(b))

\* The match that folds the case of ASCII letters.
ToUpper(str) ==
    [i \in 1..Len(str) |->
        IF str[i] >= 97 /\ str[i] <= 122 THEN str[i] - 32 ELSE str[i]]

NameMatchesFoldingCase(p, ctrl) == ToUpper(p.Name) = ToUpper(ctrl.Callsign)

\* func(p Position) bool { return p.Name == ctrl.Callsign }
NameMatches(p, ctrl) == p.Name = ctrl.Callsign

\* slices.ContainsFunc(positions, ...)
ContainsFunc(ps, ctrl) == \E i \in 1..Len(ps) : NameMatches(ps[i], ctrl)

\* The loop that appends the matching sessions to online, in input order.
Retained(cs, ps) == SelectSeq(cs, LAMBDA c : ContainsFunc(ps, c))

\* func(a, b Controller) int { return strings.Compare(a.Callsign, b.Callsign) }
cmp(a, b) == Compare(a.Callsign, b.Callsign)

Rearrangements(k) == {f \in [1..k -> 1..k] : \A i, j \in 1..k : f[i] = f[j] => i = j}

\* slices.SortFunc: the sort is not stable, so the result is any arrangement
\* of the elements that is ascending by cmp.
SortFunc(s) ==
    {t \in {[i \in 1..Len(s) |-> s[f[i]]] : f \in Rearrangements(Len(s))} :
        \A i, j \in 1..Len(s) : i < j => cmp(t[i], t[j]) <= 0}

ActiveControllers ==
    /\ acpc = "call"
    /\ online' \in SortFunc(Retained(controllers, positions))
    /\ acpc' = "returned"
    /\ UNCHANGED <<controllers, positions, trafficVars, distanceVars>>

ControllersInit ==
    /\ controllers \in SeqsUpTo(Controllers, MaxControllers)
    /\ positions \in SeqsUpTo(Positions, MaxPositions)
    /\ online = <<>>
    /\ acpc = "call"

TrafficIdle ==
    /\ airports = <<>>
    /\ dep = EmptyMap /\ arr = EmptyMap /\ count = 0
    /\ pc = "done"
    /\ pilot = NoPilot /\ depInc = <<>> /\ arrInc = <<>>

-----------------------------------------------------------------------------
\* NMDistance2LL.

\* Points of one meridian, as the aircraft and airports of CountTraffic.
MeridianPoints ==
    {<<Float(0), Float(x)>> : x \in {0, 2, 3, 30, 300, 500, 501}}

\* Points whose coordinates are whole sextants; latitudes beyond 90 degrees
\* are malformed, and ordinary floats to the function.
LatticePoints ==
    {<<Float(m * Sextant), Float(j * Sextant)>> :
        m \in (0 - MaxSextants)..MaxSextants,
        j \in (1 - MaxSextants)..(MaxSextants - 1)}

DistanceArguments ==
    (MeridianPoints \X MeridianPoints) \cup (LatticePoints \X LatticePoints)

\* The function applied to (a, b), to (b, a) and to (a, a).
Measure ==
    /\ dpc = "call"
    /\ dist' = [ab |-> NMDistance2LL(pointA, pointB),
                ba |-> NMDistance2LL(pointB, pointA),
                aa |-> NMDistance2LL(pointA, pointA)]
    /\ dpc' = "returned"
    /\ UNCHANGED <<pointA, pointB, trafficVars, controllerVars>>

DistanceInit ==
    /\ \E args \in DistanceArguments : pointA = args[1] /\ pointB = args[2]
    /\ dist = [ab |-> Float(0), ba |-> Float(0), aa |-> Float(0)]
    /\ dpc = "call"

-----------------------------------------------------------------------------
\* Specifications.

Init == TrafficInit /\ ControllersIdle /\ DistanceIdle

Next == Panic \/ Skip \/ Classify \/ NextPilot \/ Return

Spec == Init /\ [][Next]_vars

\* ActiveControllers alone.
InitControllers == TrafficIdle /\ ControllersInit /\ DistanceIdle

NextControllers == ActiveControllers

SpecControllers == InitControllers /\ [][NextControllers]_vars

\* NMDistance2LL alone.
InitDistance == TrafficIdle /\ ControllersIdle /\ DistanceInit

NextDistance == Measure

SpecDistance == InitDistance /\ [][NextDistance]_vars

-----------------------------------------------------------------------------
\* Vocabulary of the properties, stated on the inputs and results alone.

\* The position of the aircraft of the running iteration.
Here == <<pilot.Longitude, pilot.Latitude>>

Finite(loc) == ~loc[1].nan /\ ~loc[2].nan

\* Nautical miles between two finite points of the meridian.
Gap(a, b) == IF a[2].v >= b[2].v THEN a[2].v - b[2].v ELSE b[2].v - a[2].v

\* loc is a number of nautical miles from a that satisfies the given test.
Within(a, loc, k) == Finite(loc) /\ Finite(a) /\ Gap(a, loc) < k
Beyond(a, loc, k) == Finite(loc) /\ Finite(a) /\ Gap(a, loc) > k
Exactly(a, loc, k) == Finite(loc) /\ Finite(a) /\ Gap(a, loc) = k

\* A Go map read: a missing key is 0.
Get(m, k) == IF k \in DOMAIN m THEN m[k] ELSE 0

RECURSIVE SumOver(_, _)
SumOver(m, ks) ==
    IF ks = {} THEN 0
    ELSE LET k == CHOOSE x \in ks : TRUE IN m[k] + SumOver(m, ks \ {k})

\* The sum of the values of a map.
Total(m) == SumOver(m, DOMAIN m)

Majors == 1..Len(airports)
Sats(i) == 1..Len(airports[i].Satellites)
MajorCodes == {airports[i].Name : i \in Majors}

\* Major i lists the code as its own or as the code of one of its satellites.
Lists(i, code) ==
    \/ airports[i].Name = code
    \/ \E j \in Sats(i) : airports[i].Satellites[j].Name = code

\* The code resolves to major i: i is the first major that lists it.
ResolvesTo(code, i) ==
    i \in Majors /\ Lists(i, code) /\ \A h \in 1..(i - 1) : ~Lists(h, code)

\* Some location of major i, its own or a satellite's, is within 3 nm.
GroundAt(i, loc) ==
    \/ Within(airports[i].Location, loc, 3)
    \/ \E j \in Sats(i) : Within(airports[i].Satellites[j].Location, loc, 3)

\* The step that runs one iteration of the loop over state.Pilots.
IterationStep == pc = "loop" /\ pc' = "iter"

\* The position of the aircraft of the iteration a step runs.
There == <<pilot'.Longitude, pilot'.Latitude>>

\* The step raises the departure (arrival) count of the code by one, leaves it.
DepRaised(k) == Get(dep', k) = Get(dep, k) + 1
DepSame(k) == Get(dep', k) = Get(dep, k)
ArrRaised(k) == Get(arr', k) = Get(arr, k) + 1
ArrSame(k) == Get(arr', k) = Get(arr, k)

DepKeys == DOMAIN dep \cup DOMAIN dep'
ArrKeys == DOMAIN arr \cup DOMAIN arr'

\* The iteration just run passed the 500 nm test.
Considered == pc = "iter" /\ ~Beyond(airports[1].Location, Here, 500)

-----------------------------------------------------------------------------
\* C1: an aircraft more than 500 nm from the first major of the registry
\* changes no departure count, no arrival count and not the total, whatever
\* else holds of it; an aircraft at exactly 500 nm is not skipped: when it
\* is stationary, filed no departure and stands within 3 nm of an airport of
\* the registry, a departure is counted.
C1_CutoffAtFirstMajor ==
    [][IterationStep =>
        LET loc == <<pilot'.Longitude, pilot'.Latitude>>
        IN  /\ Beyond(airports[1].Location, loc, 500)
                => dep' = dep /\ arr' = arr /\ count' = count
            /\ (/\ Exactly(airports[1].Location, loc, 500)
                /\ pilot'.Departure = "" /\ pilot'.Groundspeed < 20
                /\ \E i \in Majors : GroundAt(i, loc))
                => Total(dep') = Total(dep) + 1]_vars

\* An aircraft 501 nm from the first major, standing on another major whose
\* code it filed for departure and arrival, moving: nothing is counted.
C1_Witness ==
    /\ pc = "iter" /\ Len(airports) >= 2
    /\ Beyond(airports[1].Location, Here, 500)
    /\ airports[2].Location = Here
    /\ pilot.Departure = airports[2].Name /\ pilot.Arrival = airports[2].Name
    /\ pilot.Groundspeed > 20
    /\ count = 0 /\ dep = EmptyMap /\ arr = EmptyMap

-----------------------------------------------------------------------------
\* C2 as stated: for every major M, an aircraft that filed M's own code as
\* its departure and is exactly at M's coordinates raises departures[M] by
\* one.
C2_Original ==
    [][IterationStep =>
        \A i \in Majors :
            (pilot'.Departure = airports[i].Name /\ There = airports[i].Location)
            => DepRaised(airports[i].Name)]_vars

\* C2 as amended: the same, for every major M that is at most 500 nm from
\* the first major and whose code no earlier major lists, as its own or as a
\* satellite's.
C2_DepartureAtOwnField ==
    [][IterationStep =>
        \A i \in Majors :
            (/\ pilot'.Departure = airports[i].Name
             /\ There = airports[i].Location
             /\ ~Beyond(airports[1].Location, airports[i].Location, 500)
             /\ ResolvesTo(airports[i].Name, i))
            => /\ DepRaised(airports[i].Name)
               /\ \A k \in DepKeys \ {airports[i].Name} : DepSame(k)]_vars

\* An aircraft on a major that is not the first, filed as its departure, has
\* been counted for it.
C2_Witness ==
    /\ pc = "iter"
    /\ \E i \in Majors :
          /\ i > 1
          /\ pilot.Departure = airports[i].Name
          /\ Here = airports[i].Location
          /\ ResolvesTo(airports[i].Name, i)
          /\ airports[i].Name # airports[1].Name
          /\ depInc = <<airports[i].Name>>
          /\ Get(dep, airports[i].Name) >= 1

-----------------------------------------------------------------------------
\* C3 as stated: for every satellite S of a major M, an aircraft with no
\* filed departure, groundspeed 0, less than 3 nm from S raises
\* departures[M] by one and no other departure count.
C3_Original ==
    [][IterationStep =>
        \A i \in Majors : \A j \in Sats(i) :
            (/\ pilot'.Departure = "" /\ pilot'.Groundspeed = 0
             /\ Within(airports[i].Satellites[j].Location, There, 3))
            => /\ DepRaised(airports[i].Name)
               /\ \A k \in DepKeys \ {airports[i].Name} : DepSame(k)]_vars

\* C3 as amended: the same, when the aircraft is at most 500 nm from the first
\* major and no major before M has its own location or a satellite less
\* than 3 nm from the aircraft.
C3_GroundDepartureAtSatellite ==
    [][IterationStep =>
        \A i \in Majors : \A j \in Sats(i) :
            (/\ pilot'.Departure = "" /\ pilot'.Groundspeed = 0
             /\ Within(airports[i].Satellites[j].Location, There, 3)
             /\ ~Beyond(airports[1].Location, There, 500)
             /\ \A h \in 1..(i - 1) : ~GroundAt(h, There))
            => /\ DepRaised(airports[i].Name)
               /\ \A k \in DepKeys \ {airports[i].Name} : DepSame(k)]_vars

\* A stationary aircraft without a filed departure, near a satellite of a
\* major that is not the first and away from that major's own location, has
\* been counted for that major.
C3_Witness ==
    /\ pc = "iter"
    /\ pilot.Departure = "" /\ pilot.Groundspeed = 0
    /\ \E i \in Majors : \E j \in Sats(i) :
          /\ i > 1
          /\ Within(airports[i].Satellites[j].Location, Here, 3)
          /\ ~Within(airports[i].Location, Here, 3)
          /\ airports[i].Name # airports[i].Satellites[j].Name
          /\ depInc = <<airports[i].Name>>
          /\ Get(dep, airports[i].Name) >= 1
          /\ airports[i].Satellites[j].Name \notin DOMAIN dep

-----------------------------------------------------------------------------
\* C4: one iteration raises the departure counts by at most one in all, and
\* the arrival counts by at most one in all, and lowers none: an aircraft is
\* never counted for two majors, nor twice for one, in a direction.
C4_OneIncrementPerDirection ==
    [][IterationStep =>
        /\ Total(dep') <= Total(dep) + 1
        /\ Total(arr') <= Total(arr) + 1
        /\ \A k \in DepKeys : Get(dep', k) >= Get(dep, k)
        /\ \A k \in ArrKeys : Get(arr', k) >= Get(arr, k)]_vars

\* A stationary aircraft without a filed departure, less than 3 nm from
\* locations of two majors of different codes, has been counted once.
C4_Witness ==
    /\ pc = "iter"
    /\ pilot.Departure = "" /\ pilot.Groundspeed < 20
    /\ \E i, h \in Majors :
          /\ airports[i].Name # airports[h].Name
          /\ GroundAt(i, Here) /\ GroundAt(h, Here)
          /\ \E j \in Sats(h) :
                Within(airports[h].Satellites[j].Location, Here, 3)
    /\ Len(depInc) = 1
    /\ Total(dep) >= 1

-----------------------------------------------------------------------------
\* C5: after every step the total count is the sum of the departure counts
\* plus the sum of the arrival counts; an iteration that counts a departure
\* and an arrival raises the total by 2, one that counts neither leaves it.
C5_TotalIsSumOfCounts ==
    [][/\ count' = Total(dep') + Total(arr')
       /\ IterationStep =>
            /\ (Total(dep') > Total(dep) /\ Total(arr') > Total(arr))
                => count' = count + 2
            /\ (dep' = dep /\ arr' = arr) => count' = count]_vars

\* An aircraft has been counted as a departure and as an arrival, after an
\* earlier aircraft was counted.
C5_Witness ==
    /\ pc = "iter"
    /\ depInc # <<>> /\ arrInc # <<>>
    /\ count = 3
    /\ Total(dep) + Total(arr) = 3

-----------------------------------------------------------------------------
\* C6 as stated: CountTraffic never fails, whatever the aircraft list and the
\* registry, a registry without majors included.
C6_NeverFails == pc # "panic"

-----------------------------------------------------------------------------
\* C7: every key of the departure map and of the arrival map is the own
\* code of a major of the registry, and every value stored is at least 1.
C7_KeysAreMajorCodes ==
    /\ DOMAIN dep \subseteq MajorCodes
    /\ DOMAIN arr \subseteq MajorCodes
    /\ \A k \in DOMAIN dep : dep[k] >= 1
    /\ \A k \in DOMAIN arr : arr[k] >= 1

\* An aircraft that filed the code of a satellite, which is no major's code,
\* has been counted as a departure, and a count of 2 is stored.
C7_Witness ==
    /\ pc = "iter"
    /\ pilot.Departure # "" /\ pilot.Departure \notin MajorCodes
    /\ \E i \in Majors : ResolvesTo(pilot.Departure, i)
    /\ Len(depInc) = 1
    /\ dep[depInc[1]] = 2
    /\ pilot.Departure \notin DOMAIN dep

-----------------------------------------------------------------------------
\* C8: an iteration that passes the 500 nm test raises an arrival count
\* exactly when the filed arrival code resolves to a major M (the first
\* major that lists it as its own code or a satellite's), the aircraft is
\* strictly less than 300 nm from M's own location and its groundspeed is
\* strictly above 20; it then raises M's count by one and no other.
C8_ArrivalRule ==
    [][(IterationStep /\ ~Beyond(airports[1].Location, There, 500)) =>
        IF \E i \in Majors :
              /\ ResolvesTo(pilot'.Arrival, i)
              /\ Within(airports[i].Location, There, 300)
              /\ pilot'.Groundspeed > 20
        THEN \A i \in Majors :
                ResolvesTo(pilot'.Arrival, i)
                => /\ ArrRaised(airports[i].Name)
                   /\ \A k \in ArrKeys \ {airports[i].Name} : ArrSame(k)
        ELSE arr' = arr]_vars

\* A moving aircraft that filed a satellite's code as its arrival, between
\* 30 and 300 nm from the owning major, has been counted for that major.
C8_Witness ==
    /\ pc = "iter"
    /\ pilot.Groundspeed = 21
    /\ \E i \in Majors :
          /\ ResolvesTo(pilot.Arrival, i)
          /\ pilot.Arrival # airports[i].Name
          /\ Within(airports[i].Location, Here, 300)
          /\ ~Within(airports[i].Location, Here, 30)
          /\ arrInc = <<airports[i].Name>>
          /\ Get(arr, airports[i].Name) >= 1

-----------------------------------------------------------------------------
\* Vocabulary of the controller filter.

\* Some watched position has exactly this call sign.
Watched(cs) == \E i \in 1..Len(positions) : positions[i].Name = cs

Occurrences(s, c) == Cardinality({i \in 1..Len(s) : s[i] = c})

\* a is at or before b in byte-wise lexicographic order.
LexLE(a, b) ==
    \E k \in 0..Len(a) :
        /\ k <= Len(b)
        /\ \A m \in 1..k : a[m] = b[m]
        /\ \/ k = Len(a)
           \/ k < Len(b) /\ a[k + 1] < b[k + 1]

\* C9: ActiveControllers returns the sessions whose call sign is equal to
\* the call sign of a watched position, each as often as the input has it,
\* and no other session, in ascending order of call sign; the result is
\* empty when no call sign matches.
C9_FilterAndSort ==
    acpc = "returned" =>
        /\ \A c \in Controllers :
              Occurrences(online, c) =
                  IF Watched(c.Callsign) THEN Occurrences(controllers, c) ELSE 0
        /\ \A i, j \in 1..Len(online) :
              i < j => LexLE(online[i].Callsign, online[j].Callsign)
        /\ (\A i \in 1..Len(controllers) : ~Watched(controllers[i].Callsign))
              => online = <<>>

\* Two watched sessions came out of order in the input and were returned in
\* order, a third, whose call sign differs from a watched one in case only,
\* was dropped.
C9_Witness ==
    /\ acpc = "returned"
    /\ Len(online) = 2 /\ Len(controllers) = 3
    /\ \E i, j \in 1..Len(controllers) :
          /\ i < j
          /\ Watched(controllers[i].Callsign) /\ Watched(controllers[j].Callsign)
          /\ ~LexLE(controllers[i].Callsign, controllers[j].Callsign)
          /\ online = <<controllers[j], controllers[i]>>
    /\ \E i \in 1..Len(controllers) :
          /\ ~Watched(controllers[i].Callsign)
          /\ Watched(ToUpper(controllers[i].Callsign))

-----------------------------------------------------------------------------
\* C10 as stated: no iteration raises both the departure count and the
\* arrival count of one major.
C10_Original ==
    [][IterationStep =>
        \A k \in DepKeys \cap ArrKeys : ~(DepRaised(k) /\ ArrRaised(k))]_vars

\* C10 as amended: an iteration raises both the departure count and the
\* arrival count of one code only when the filed departure and the filed
\* arrival both resolve to a major of that code, the aircraft is less than
\* 30 nm from the departure major and faster than 20 knots; an aircraft
\* counted as a departure otherwise than by its filed departure (by the scan
\* for aircraft on the ground) raises no arrival count.
C10_BothDirectionsOnlyByPlan ==
    [][IterationStep =>
        /\ \A k \in DepKeys \cap ArrKeys :
              (DepRaised(k) /\ ArrRaised(k))
              => /\ pilot'.Groundspeed > 20
                 /\ \E i \in Majors :
                       /\ ResolvesTo(pilot'.Departure, i)
                       /\ airports[i].Name = k
                       /\ Within(airports[i].Location, There, 30)
                 /\ \E h \in Majors :
                       /\ ResolvesTo(pilot'.Arrival, h)
                       /\ airports[h].Name = k
        /\ (/\ Total(dep') > Total(dep)
            /\ ~\E i \in Majors :
                  /\ ResolvesTo(pilot'.Departure, i)
                  /\ Within(airports[i].Location, There, 30))
              => arr' = arr]_vars

\* An aircraft that filed one major as departure and arrival has been
\* counted as both for it.
C10_Witness ==
    /\ pc = "iter"
    /\ pilot.Departure = pilot.Arrival
    /\ Len(depInc) = 1 /\ arrInc = depInc
    /\ pilot.Departure = depInc[1]
    /\ Get(dep, depInc[1]) >= 1 /\ Get(arr, depInc[1]) >= 1

-----------------------------------------------------------------------------
\* C11: the distance of a point from itself is 0, and the distance of a
\* from b is the distance of b from a (both are numbers, and no more than
\* 1e-3 nm apart: here the same whole number of nautical miles), for all
\* points a and b of finite coordinates.
C11_ZeroAndSymmetric ==
    dpc = "returned" =>
        /\ dist.aa = Float(0)
        /\ ~dist.ab.nan /\ ~dist.ba.nan
        /\ dist.ab.v = dist.ba.v

\* Two points of different latitudes and different longitudes, neither on
\* the equator, have been measured both ways, and are apart.
C11_Witness ==
    /\ dpc = "returned"
    /\ pointA[1] # pointB[1] /\ pointA[2] # pointB[2]
    /\ pointA[2].v # 0 /\ pointB[2].v # 0
    /\ Abs(pointA[2].v) # Abs(pointB[2].v)
    /\ dist.ab.v > 0 /\ dist.ba.v > 0

-----------------------------------------------------------------------------
\* The flight-plan path counts the aircraft of the iteration a step runs:
\* its filed departure resolves to a major less than 30 nm away.
PlanCounts ==
    \E i \in Majors :
        /\ ResolvesTo(pilot'.Departure, i)
        /\ Within(airports[i].Location, There, 30)

\* C12: an iteration raises a departure count without the flight-plan path
\* only when the filed departure code is empty, the groundspeed is under 20
\* and some location of a major is less than 3 nm away. So an aircraft
\* whose filed departure resolves to a major M that is 30 nm or more away
\* is not counted for its flight plan, and an aircraft with a non-empty
\* filed departure that the flight-plan path does not count changes no
\* departure count, wherever it stands and whatever its speed. When the
\* flight-plan path counts (within 500 nm of the first major), the count of
\* the resolved major alone is raised, by one.
C12_FallbackOnlyWithoutFiledCode ==
    [][IterationStep =>
        /\ (dep' # dep /\ ~PlanCounts)
              => /\ pilot'.Departure = "" /\ pilot'.Groundspeed < 20
                 /\ \E i \in Majors : GroundAt(i, There)
        /\ (pilot'.Departure # "" /\ ~PlanCounts) => dep' = dep
        /\ \A i \in Majors :
              (/\ ResolvesTo(pilot'.Departure, i)
               /\ ~Within(airports[i].Location, There, 30))
              => DepSame(airports[i].Name)
        /\ (PlanCounts /\ ~Beyond(airports[1].Location, There, 500))
              => \A i \in Majors :
                    ResolvesTo(pilot'.Departure, i)
                    => /\ DepRaised(airports[i].Name)
                       /\ \A k \in DepKeys \ {airports[i].Name} : DepSame(k)]_vars

\* A stationary aircraft that filed the code of a satellite and stands less
\* than 3 nm from it and from the first major, 30 nm or more from the major
\* that owns the satellite, has passed the 500 nm test and has not been
\* counted as a departure.
C12_Witness ==
    /\ Considered
    /\ pilot.Departure # "" /\ pilot.Groundspeed = 0
    /\ Within(airports[1].Location, Here, 3)
    /\ \E i \in Majors : \E j \in Sats(i) :
          /\ ResolvesTo(pilot.Departure, i)
          /\ airports[i].Satellites[j].Name = pilot.Departure
          /\ Within(airports[i].Satellites[j].Location, Here, 3)
          /\ ~Within(airports[i].Location, Here, 30)
    /\ depInc = <<>>
    /\ dep = EmptyMap

-----------------------------------------------------------------------------
\* The candidates of the registry from major i on, flattened: for each major
\* in registry order its own location, then the locations of its satellites
\* in order, each paired with the code of the major.
RECURSIVE CandidatesFrom(_)
CandidatesFrom(i) ==
    IF i > Len(airports) THEN <<>>
    ELSE <<[Major |-> airports[i].Name, Location |-> airports[i].Location]>>
         \o [j \in Sats(i) |->
                [Major |-> airports[i].Name,
                 Location |-> airports[i].Satellites[j].Location]]
         \o CandidatesFrom(i + 1)

Candidates == CandidatesFrom(1)

\* The candidates less than 3 nm from loc, by their place in the sequence.
InRange(loc) ==
    {k \in 1..Len(Candidates) : Within(Candidates[k].Location, loc, 3)}

\* C13: for a stationary aircraft without a filed departure code, within
\* the 500 nm test, the iteration does what one ordered scan of the
\* flattened candidates does that stops at the first candidate less than
\* 3 nm away: it raises the departure count of that candidate's major by one
\* and no other count, however many candidates are in range, and changes
\* no departure count when none is.
C13_NestedScanIsFlatScan ==
    [][(/\ IterationStep
        /\ pilot'.Departure = "" /\ pilot'.Groundspeed < 20
        /\ ~Beyond(airports[1].Location, There, 500)) =>
        IF InRange(There) = {} THEN dep' = dep
        ELSE LET first == CHOOSE k \in InRange(There) :
                              \A m \in InRange(There) : k <= m
                 code == Candidates[first].Major
             IN  /\ DepRaised(code)
                 /\ \A k \in DepKeys \ {code} : DepSame(k)]_vars

\* Two candidates of majors of different codes were in range, the first of
\* them a satellite of the first major, the second the own location of a
\* later major: the first major has been counted once, the later not.
C13_Witness ==
    /\ Considered
    /\ pilot.Departure = "" /\ pilot.Groundspeed < 20
    /\ Len(airports) >= 2
    /\ ~Within(airports[1].Location, Here, 3)
    /\ \E j \in Sats(1) : Within(airports[1].Satellites[j].Location, Here, 3)
    /\ Within(airports[2].Location, Here, 3)
    /\ airports[2].Name # airports[1].Name
    /\ Cardinality(InRange(Here)) >= 2
    /\ depInc = <<airports[1].Name>>
    /\ dep = (airports[1].Name :> 1)

=============================================================================
